---- MODULE Spec2Model ----
(***************************************************************************)
(* Model of petrovich-rs: the rule matcher, the inflector, the hyphen      *)
(* splitter (src/src/lib.rs), the gender heuristic (src/src/gender.rs),   *)
(* the deprecated wrappers (src/src/deprecated.rs) and the compilation of *)
(* a rule's modifiers (src/build.rs).                                     *)
(*                                                                         *)
(* A string is a sequence of characters; a character is named by a TLA+   *)
(* string: "ya" and "YA" stand for the Cyrillic letters U+044F / U+042F   *)
(* (two UTF-8 bytes each), "b", "B", "x", ... for ASCII letters, " " for  *)
(* the space and "-" for the hyphen (one byte each).                      *)
(***************************************************************************)
EXTENDS Integers, Sequences, FiniteSets, TLC

VARIABLES RULES, GENDER, call, ret, trace

vars == <<RULES, GENDER, call, ret, trace>>

(* ---------------------------- bounds ----------------------------------- *)

\* longest name handed to firstname / lastname / middlename
MaxLen == 3
\* longest exception list of a RuleList
MaxExc == 2
\* longest suffix list of a RuleList
MaxSuf == 2
\* longest name part handed to detect_gender
MaxGLen == 2

(* ---------------------------- strings ---------------------------------- *)

\* char::len_utf8
len_utf8(c) == IF c \in {"ya", "YA"} THEN 2 ELSE 1

\* str::len: the length in bytes
RECURSIVE str_len(_)
str_len(s) == IF s = <<>> THEN 0 ELSE len_utf8(Head(s)) + str_len(Tail(s))

\* char::to_lowercase on the characters of the model
char_to_lowercase(c) ==
    CASE c = "YA" -> "ya"
      [] c = "B" -> "b"
      [] OTHER -> c

\* str::to_lowercase
to_lowercase(s) == [i \in 1..Len(s) |-> char_to_lowercase(s[i])]

\* str::ends_with
ends_with(name, test) ==
    /\ Len(test) <= Len(name)
    /\ SubSeq(name, Len(name) - Len(test) + 1, Len(name)) = test

\* Iterator::take(n).collect()
take(s, n) == SubSeq(s, 1, IF n < Len(s) THEN n ELSE Len(s))

\* Iterator::skip(n).collect()
skip_chars(s, n) == SubSeq(s, n + 1, Len(s))

\* split that cuts at a space as it cuts at a hyphen
RECURSIVE split_at_space_too(_)
split_at_space_too(name) ==
    IF \A i \in 1..Len(name) : name[i] \notin {"-", " "}
    THEN <<name>>
    ELSE LET h == CHOOSE i \in 1..Len(name) :
                     /\ name[i] \in {"-", " "}
                     /\ \A j \in 1..(i - 1) : name[j] \notin {"-", " "}
         IN  <<SubSeq(name, 1, h - 1)>>
               \o split_at_space_too(SubSeq(name, h + 1, Len(name)))

\* str::split('-'): k hyphens give k + 1 parts, empty ones included
RECURSIVE split(_)
split(name) ==
    IF \A i \in 1..Len(name) : name[i] # "-"
    THEN <<name>>
    ELSE LET h == CHOOSE i \in 1..Len(name) :
                     /\ name[i] = "-"
                     /\ \A j \in 1..(i - 1) : name[j] # "-"
         IN  <<SubSeq(name, 1, h - 1)>> \o split(SubSeq(name, h + 1, Len(name)))

\* [String]::join("-")
RECURSIVE join(_)
join(parts) ==
    IF Len(parts) = 0 THEN <<>>
    ELSE IF Len(parts) = 1 THEN parts[1]
    ELSE parts[1] \o <<"-">> \o join(Tail(parts))

\* the strings over alphabet of at most n characters
StringsUpTo(alphabet, n) == UNION {[1..k -> alphabet] : k \in 0..n}

\* the elements of pool at the positions in I, in the order of pool
Picked(pool, I) ==
    [k \in 1..Cardinality(I) |->
        pool[CHOOSE i \in I : Cardinality({j \in I : j < i}) = k - 1]]

\* the lists of at most n rules taken from pool in the order of pool
ListsUpTo(pool, n) ==
    {Picked(pool, I) : I \in {J \in SUBSET (1..Len(pool)) : Cardinality(J) <= n}}

(* ---------------------------- enums ------------------------------------ *)

Gender == {"Male", "Female", "Androgynous"}

Case == {"Genitive", "Dative", "Accusative", "Instrumental", "Prepositional"}

\* `case as usize`
case_as_usize(case) ==
    CASE case = "Genitive" -> 0
      [] case = "Dative" -> 1
      [] case = "Accusative" -> 2
      [] case = "Instrumental" -> 3
      [] case = "Prepositional" -> 4

(* ------------------- build.rs: a rule's modifiers ---------------------- *)

\* Modifier = Option<(usize, &'static str)>
NoModifier == [some |-> FALSE, skip |-> 0, postfix |-> <<>>]
SomeModifier(n, s) == [some |-> TRUE, skip |-> n, postfix |-> s]

\* the fold of generate_rule: the number of '-' in the modifier
dashes(modifier) == Cardinality({i \in 1..Len(modifier) : modifier[i] = "-"})

\* generate_rule, one entry of mods: "." is None, otherwise the dashes are
\* counted and that many leading characters are skipped
generate_modifier(modifier) ==
    IF modifier = <<".">>
    THEN NoModifier
    ELSE SomeModifier(dashes(modifier), skip_chars(modifier, dashes(modifier)))

\* generate_rule: a rule of rules.yml as written to rules.inc
generate_rule(gender, test, mods, tags) ==
    [gender |-> gender,
     test |-> test,
     mods |-> [i \in 1..5 |-> generate_modifier(mods[i])],
     tags |-> tags]

(* ---------------------------- lib.rs: Rule ------------------------------ *)

\* Rule::modifier
modifier(rule, case) == rule.mods[case_as_usize(case) + 1]

\* Rule::has_tag
has_tag(rule, tag) == tag \in rule.tags

\* Rule::fully_matches
fully_matches(rule, name) == \E i \in 1..Len(rule.test) : rule.test[i] = name

\* Rule::suffix_matches
suffix_matches(rule, name) ==
    \E i \in 1..Len(rule.test) : ends_with(name, rule.test[i])

\* gender_matches without the wildcard
gender_matches_strict(rule, gender) == rule.gender = gender

\* Rule::gender_matches
gender_matches(rule, gender) ==
    rule.gender = gender \/ rule.gender = "Androgynous"

(* ---------------------------- lib.rs: Matcher --------------------------- *)

\* Iterator::find over positions: the first position satisfying P, 0 for None
RECURSIVE find_from(_, _, _)
find_from(holds, i, n) ==
    IF i > n THEN 0
    ELSE IF holds[i] THEN i
    ELSE find_from(holds, i + 1, n)

\* find_exception that never looks at the tags
find_exception_untagged(exceptions, name, gender, is_last) ==
    find_from([i \in 1..Len(exceptions) |->
                  /\ fully_matches(exceptions[i], name)
                  /\ gender_matches(exceptions[i], gender)],
              1, Len(exceptions))

\* find_exception: the position in exceptions of the rule found, 0 for None
find_exception(exceptions, name, gender, is_last) ==
    find_from([i \in 1..Len(exceptions) |->
                  /\ fully_matches(exceptions[i], name)
                  /\ gender_matches(exceptions[i], gender)
                  /\ (~has_tag(exceptions[i], "FirstWord") \/ ~is_last)],
              1, Len(exceptions))

\* max_fold that keeps the running maximum on a tie, as min_by_key does for
\* the minimum
RECURSIVE max_fold_keep_first(_, _, _)
max_fold_keep_first(keys, i, best) ==
    IF i > Len(keys) THEN best
    ELSE max_fold_keep_first(keys, i + 1, IF keys[best] >= keys[i] THEN best ELSE i)

\* the fold of Iterator::max_by_key: a later element replaces the running
\* maximum unless the running maximum is strictly greater
RECURSIVE max_fold(_, _, _)
max_fold(keys, i, best) ==
    IF i > Len(keys) THEN best
    ELSE max_fold(keys, i + 1, IF keys[best] > keys[i] THEN best ELSE i)

\* Iterator::max_by_key on a non-empty sequence of keys: the position kept
max_by_key(keys) == max_fold(keys, 2, 1)

\* the key closure of find_suffix: the byte length of the longest test of
\* rule that ends name
longest_match(rule, name) ==
    LET matching == SelectSeq(rule.test, LAMBDA t : ends_with(name, t))
        lens == [k \in 1..Len(matching) |-> str_len(matching[k])]
    IN  str_len(matching[max_by_key(lens)])

\* find_suffix with Iterator::next in place of max_by_key: the first rule
\* that passes the filter
find_suffix_first(suffixes, name, gender) ==
    LET filtered == SelectSeq([i \in 1..Len(suffixes) |-> i],
                       LAMBDA i : /\ suffix_matches(suffixes[i], name)
                                  /\ gender_matches(suffixes[i], gender))
    IN  IF filtered = <<>> THEN 0 ELSE filtered[1]

\* find_suffix: the position in suffixes of the rule found, 0 for None
find_suffix(suffixes, name, gender) ==
    LET filtered == SelectSeq([i \in 1..Len(suffixes) |-> i],
                       LAMBDA i : /\ suffix_matches(suffixes[i], name)
                                  /\ gender_matches(suffixes[i], gender))
        keys == [k \in 1..Len(filtered) |-> longest_match(suffixes[filtered[k]], name)]
    IN  IF filtered = <<>> THEN 0 ELSE filtered[max_by_key(keys)]

(* ---------------------------- lib.rs: Inflector ------------------------- *)

Returned(s) == [kind |-> "String", val |-> s]
Panic == [kind |-> "panic", val |-> <<>>]

\* `name.chars().count() - skip` on usize: with overflow checks (debug
\* profile) an underflow panics, reported as -1; without them (release
\* profile) it wraps. The wrapped count is 2^64 - (skip - count); the model
\* wraps at 2^30, which keeps the arithmetic inside 32-bit integers, and
\* either value exceeds every string length.
usize_sub(a, b, overflow_checks) ==
    IF a >= b THEN a - b
    ELSE IF overflow_checks THEN -1
    ELSE (a - b) % (2^30)

\* inflect
inflect(name, rule, case, overflow_checks) ==
    LET m == modifier(rule, case)
        n == usize_sub(Len(name), m.skip, overflow_checks)
    IN  IF m.some
        THEN IF n < 0 THEN Panic ELSE Returned(take(name, n) \o m.postfix)
        ELSE Returned(name)

\* Option::or on the two passes, exchanged: the suffix rule is kept when
\* both passes found one
suffix_or(e, s) ==
    IF s # 0 THEN [pass |-> "suffix", idx |-> s]
    ELSE IF e # 0 THEN [pass |-> "exception", idx |-> e]
    ELSE [pass |-> "none", idx |-> 0]

\* Option::or on what find_exception (e) and find_suffix (s) returned: the
\* pass that supplies the rule and the rule's position in its list
exception_or(e, s) ==
    IF e # 0 THEN [pass |-> "exception", idx |-> e]
    ELSE IF s # 0 THEN [pass |-> "suffix", idx |-> s]
    ELSE [pass |-> "none", idx |-> 0]

\* find_exception(..).or(find_suffix(..)) of inflect_name_part
matched_rule(rule_list, lowercase_name, gender, is_last) ==
    exception_or(find_exception(rule_list.exceptions, lowercase_name, gender, is_last),
                 find_suffix(rule_list.suffixes, lowercase_name, gender))

\* the rule a pass and a position name
rule_at(rule_list, m) ==
    IF m.pass = "exception" THEN rule_list.exceptions[m.idx]
    ELSE rule_list.suffixes[m.idx]

\* Option::map of inflect_name_part on the matched rule m
map_inflect(name, m, case, rule_list, overflow_checks) ==
    IF m.pass = "none"
    THEN [kind |-> "None", val |-> <<>>]
    ELSE inflect(name, rule_at(rule_list, m), case, overflow_checks)

\* inflect_name_part inflecting lowercase_name in place of name: the casing
\* of the fragment is lost
inflect_name_part_lowercased(gender, name, case, rule_list, is_last, overflow_checks) ==
    map_inflect(to_lowercase(name),
                matched_rule(rule_list, to_lowercase(name), gender, is_last),
                case, rule_list, overflow_checks)

\* inflect_name_part: None, Some(string) or a panic
inflect_name_part(gender, name, case, rule_list, is_last, overflow_checks) ==
    map_inflect(name, matched_rule(rule_list, to_lowercase(name), gender, is_last),
                case, rule_list, overflow_checks)

\* unwrap_or_default in place of unwrap_or: a part no rule matches becomes
\* the empty string
unwrap_or_default(name_part, is_last, m, r) ==
    [part |-> name_part,
     is_last |-> is_last,
     pass |-> m.pass,
     idx |-> m.idx,
     out |-> IF r.kind = "None" THEN Returned(<<>>) ELSE r]

\* unwrap_or(name_part.to_owned()) on what inflect_name_part returned (r),
\* recorded with the part, its position and the rule the matcher chose (m)
unwrap_or(name_part, is_last, m, r) ==
    [part |-> name_part,
     is_last |-> is_last,
     pass |-> m.pass,
     idx |-> m.idx,
     out |-> IF r.kind = "None" THEN Returned(name_part) ELSE r]

\* the closure of inflect_name for the part at position i (from 1) of
\* name_parts; the part is the last one when i - 1 = name_parts.len() - 1
inflect_part_at(gender, name_parts, i, case, rule_list, overflow_checks) ==
    unwrap_or(name_parts[i],
              i - 1 = Len(name_parts) - 1,
              matched_rule(rule_list, to_lowercase(name_parts[i]), gender,
                           i - 1 = Len(name_parts) - 1),
              inflect_name_part(gender, name_parts[i], case, rule_list,
                                i - 1 = Len(name_parts) - 1, overflow_checks))

\* the parts the iterator of inflect_name gets through: all of them, or
\* those up to the first one that panics
evaluated_parts(steps) ==
    IF \E i \in 1..Len(steps) : steps[i].out.kind = "panic"
    THEN SubSeq(steps, 1, CHOOSE i \in 1..Len(steps) :
                              /\ steps[i].out.kind = "panic"
                              /\ \A j \in 1..(i - 1) : steps[j].out.kind # "panic")
    ELSE steps

\* map over the enumerated parts of inflect_name
map_parts(gender, name_parts, case, rule_list, overflow_checks) ==
    [i \in 1..Len(name_parts) |->
        inflect_part_at(gender, name_parts, i, case, rule_list, overflow_checks)]

\* collect and join("-") of inflect_name: what is returned, with the steps
collect_join(steps) ==
    [ret |-> IF Len(steps) > 0 /\ steps[Len(steps)].out.kind = "panic"
             THEN Panic
             ELSE Returned(join([i \in 1..Len(steps) |-> steps[i].out.val])),
     trace |-> steps]

\* inflect_name: what it returns and the per-part steps it took
inflect_name(gender, name, case, rule_list, overflow_checks) ==
    collect_join(evaluated_parts(
        map_parts(gender, split(name), case, rule_list, overflow_checks)))

\* firstname
firstname(rules, gender, name, case, overflow_checks) ==
    inflect_name(gender, name, case, rules.firstname, overflow_checks)

\* lastname
lastname(rules, gender, name, case, overflow_checks) ==
    inflect_name(gender, name, case, rules.lastname, overflow_checks)

\* middlename
middlename(rules, gender, name, case, overflow_checks) ==
    inflect_name(gender, name, case, rules.middlename, overflow_checks)

(* ---------------------------- gender.rs -------------------------------- *)

NoGender == [some |-> FALSE, val |-> "Androgynous"]
SomeGender(g) == [some |-> TRUE, val |-> g]

\* the closure find_exception of GenderHeuristic::detect_gender
gender_find_exception(exceptions, name) == name \in exceptions

\* the closure find_suffix of GenderHeuristic::detect_gender
gender_find_suffix(suffixes, name) == \E suffix \in suffixes : ends_with(name, suffix)

\* the and_then closure of GenderHeuristic::detect_gender: the answer of the
\* exceptions mapping
exceptions_answer(mapping, name) ==
    IF gender_find_exception(mapping.androgynous, name) THEN NoGender
    ELSE IF gender_find_exception(mapping.female, name) THEN SomeGender("Female")
    ELSE IF gender_find_exception(mapping.male, name) THEN SomeGender("Male")
    ELSE NoGender

\* the or_else closure with the male branch placed before the female one
suffixes_answer_male_first(mapping, name) ==
    IF gender_find_suffix(mapping.androgynous, name) THEN NoGender
    ELSE IF gender_find_suffix(mapping.male, name) THEN SomeGender("Male")
    ELSE IF gender_find_suffix(mapping.female, name) THEN SomeGender("Female")
    ELSE NoGender

\* the or_else closure of GenderHeuristic::detect_gender: the answer of the
\* suffixes mapping
suffixes_answer(mapping, name) ==
    IF gender_find_suffix(mapping.androgynous, name) THEN NoGender
    ELSE IF gender_find_suffix(mapping.female, name) THEN SomeGender("Female")
    ELSE IF gender_find_suffix(mapping.male, name) THEN SomeGender("Male")
    ELSE NoGender

\* Option::and_then on the optional exceptions mapping
and_then_exceptions(heuristic, name) ==
    IF heuristic.exceptions.some
    THEN exceptions_answer(heuristic.exceptions.val, name)
    ELSE NoGender

\* GenderHeuristic::detect_gender: or_else runs whenever and_then gave None
heuristic_detect_gender(heuristic, name) ==
    LET e == and_then_exceptions(heuristic, name)
    IN  IF e.some THEN e ELSE suffixes_answer(heuristic.suffixes, name)

\* one link of the chain of detect_gender: and_then on an optional name
part_signal(heuristic, name) ==
    IF name.some
    THEN heuristic_detect_gender(heuristic, to_lowercase(name.val))
    ELSE NoGender

\* detect_gender with the first two links of the chain exchanged: the first
\* name is asked before the middle name
detect_gender_firstname_first(gender_table, last, first, middle) ==
    LET m == part_signal(gender_table.middlename, middle)
        f == part_signal(gender_table.firstname, first)
        l == part_signal(gender_table.lastname, last)
        ms == <<[which |-> "middlename", name |-> middle, signal |-> m]>>
        fs == <<[which |-> "firstname", name |-> first, signal |-> f]>>
        ls == <<[which |-> "lastname", name |-> last, signal |-> l]>>
    IN  IF f.some THEN [ret |-> f.val, trace |-> fs]
        ELSE IF m.some THEN [ret |-> m.val, trace |-> fs \o ms]
        ELSE IF l.some THEN [ret |-> l.val, trace |-> fs \o ms \o ls]
        ELSE [ret |-> "Androgynous", trace |-> fs \o ms \o ls]

\* detect_gender: what it returns and the links of the chain it evaluated;
\* last, first and middle are its arguments lastname, firstname, middlename
detect_gender(gender_table, last, first, middle) ==
    LET m == part_signal(gender_table.middlename, middle)
        f == part_signal(gender_table.firstname, first)
        l == part_signal(gender_table.lastname, last)
        ms == <<[which |-> "middlename", name |-> middle, signal |-> m]>>
        fs == <<[which |-> "firstname", name |-> first, signal |-> f]>>
        ls == <<[which |-> "lastname", name |-> last, signal |-> l]>>
    IN  IF m.some THEN [ret |-> m.val, trace |-> ms]
        ELSE IF f.some THEN [ret |-> f.val, trace |-> ms \o fs]
        ELSE IF l.some THEN [ret |-> l.val, trace |-> ms \o fs \o ls]
        ELSE [ret |-> "Androgynous", trace |-> ms \o fs \o ls]

(* ---------------------------- deprecated.rs ---------------------------- *)

\* Result::Ok around what the free function returns; a panic of the free
\* function unwinds through the wrapper
Ok(r) == IF r.kind = "panic" THEN r ELSE [kind |-> "Ok", val |-> r.val]

\* a wrapper as the earlier design had it: a failure when no rule matched
\* any part of the name
forwarded_or_err(r) ==
    [ret |-> IF \A i \in 1..Len(r.trace) : r.trace[i].pass = "none"
             THEN [kind |-> "Err", val |-> <<>>]
             ELSE Ok(r.ret),
     trace |-> r.trace]

\* the body of a wrapper on what the free function gave (r)
forwarded(r) == [ret |-> Ok(r.ret), trace |-> r.trace]

\* Petrovich::firstname
Petrovich_firstname(rules, gender, name, case, overflow_checks) ==
    forwarded(firstname(rules, gender, name, case, overflow_checks))

\* Petrovich::middlename
Petrovich_middlename(rules, gender, name, case, overflow_checks) ==
    forwarded(middlename(rules, gender, name, case, overflow_checks))

\* Petrovich::lastname
Petrovich_lastname(rules, gender, name, case, overflow_checks) ==
    forwarded(lastname(rules, gender, name, case, overflow_checks))

\* Petrovich::detect_gender
Petrovich_detect_gender(gender_table, middle) ==
    detect_gender(gender_table, [some |-> FALSE, val |-> <<>>],
                  [some |-> FALSE, val |-> <<>>], [some |-> TRUE, val |-> middle])

(* ---------------------------- rule tables ------------------------------ *)

\* the five modifiers of a rule as rules.yml writes them: unchanged, append,
\* drop one and append, drop two and append, drop one
ModsOf(letter) ==
    << <<".">>, <<letter>>, <<"-", letter>>, <<"-", "-", letter>>, <<"-">> >>

\* exception rules a table is made of, in table order
ExceptionPool ==
    << generate_rule("Androgynous", << <<"b">> >>, ModsOf("x"), {"FirstWord"}),
       generate_rule("Male", << <<"b">>, <<"ya", "b">> >>, ModsOf("y"), {}) >>

\* suffix rules a table is made of, in table order
SuffixPool ==
    << generate_rule("Androgynous", << <<"b">> >>, ModsOf("p"), {"FirstWord"}),
       generate_rule("Male", << <<"b">>, <<"ya", "b">>, <<"ya">> >>, ModsOf("q"), {}),
       generate_rule("Female", << <<"b">>, <<"b", "ya">> >>, ModsOf("r"), {}) >>

\* RuleList
RuleLists ==
    {[exceptions |-> e, suffixes |-> s] :
        e \in ListsUpTo(ExceptionPool, MaxExc), s \in ListsUpTo(SuffixPool, MaxSuf)}

Reverse(l) == [i \in 1..Len(l) |-> l[Len(l) + 1 - i]]

\* Rules: the three lists of RULES; the first-name list holds the rules of
\* the last-name list in the opposite order, the middle-name list has no
\* exceptions
RulesTables ==
    {[lastname |-> l,
      firstname |-> [exceptions |-> Reverse(l.exceptions),
                     suffixes |-> Reverse(l.suffixes)],
      middlename |-> [exceptions |-> <<>>, suffixes |-> l.suffixes]] :
        l \in RuleLists}

\* the characters of the names handed to the inflection functions
NameAlphabet == {"ya", "YA", "b", " ", "-"}

Names == StringsUpTo(NameAlphabet, MaxLen)

(* ---------------------------- state ------------------------------------ *)

NoName == [some |-> FALSE, val |-> <<>>]
SomeName(n) == [some |-> TRUE, val |-> n]

Idle ==
    [op |-> "idle", gender |-> "Androgynous", name |-> <<>>, case |-> "Genitive",
     lastname |-> NoName, firstname |-> NoName, middlename |-> NoName]

NoRet == [kind |-> "none", val |-> <<>>]

InflectCall(op, gender, name, case) ==
    [Idle EXCEPT !.op = op, !.gender = gender, !.name = name, !.case = case]

\* GenderHeuristics table used while the inflection functions are exercised
NoMapping == [androgynous |-> {}, male |-> {}, female |-> {}]
NoHeuristic == [exceptions |-> [some |-> FALSE, val |-> NoMapping], suffixes |-> NoMapping]
NoGenderTable ==
    [lastname |-> NoHeuristic, firstname |-> NoHeuristic, middlename |-> NoHeuristic]

\* what a call can come to: what the build with overflow checks does and,
\* when that is a panic, also what the build without them does (without an
\* underflow the two builds do the same)
Outcomes(checked, wrapping) ==
    IF checked.ret.kind = "panic" THEN {checked, wrapping} ELSE {checked}

InitInflect ==
    /\ RULES \in RulesTables
    /\ GENDER = NoGenderTable
    /\ call = Idle
    /\ ret = NoRet
    /\ trace = <<>>

\* a call of firstname
Firstname ==
    /\ call.op = "idle"
    /\ \E gender \in Gender, name \in Names, case \in Case :
          \E r \in Outcomes(firstname(RULES, gender, name, case, TRUE),
                            firstname(RULES, gender, name, case, FALSE)) :
             /\ call' = InflectCall("firstname", gender, name, case)
             /\ ret' = r.ret
             /\ trace' = r.trace
    /\ UNCHANGED <<RULES, GENDER>>

\* a call of lastname
Lastname ==
    /\ call.op = "idle"
    /\ \E gender \in Gender, name \in Names, case \in Case :
          \E r \in Outcomes(lastname(RULES, gender, name, case, TRUE),
                            lastname(RULES, gender, name, case, FALSE)) :
             /\ call' = InflectCall("lastname", gender, name, case)
             /\ ret' = r.ret
             /\ trace' = r.trace
    /\ UNCHANGED <<RULES, GENDER>>

\* a call of middlename
Middlename ==
    /\ call.op = "idle"
    /\ \E gender \in Gender, name \in Names, case \in Case :
          \E r \in Outcomes(middlename(RULES, gender, name, case, TRUE),
                            middlename(RULES, gender, name, case, FALSE)) :
             /\ call' = InflectCall("middlename", gender, name, case)
             /\ ret' = r.ret
             /\ trace' = r.trace
    /\ UNCHANGED <<RULES, GENDER>>

\* the caller takes the result; the tables stay as they are
Done ==
    /\ call.op # "idle"
    /\ call' = Idle
    /\ ret' = NoRet
    /\ trace' = <<>>
    /\ UNCHANGED <<RULES, GENDER>>

NextInflect == Firstname \/ Lastname \/ Middlename \/ Done

SpecInflect == InitInflect /\ [][NextInflect]_vars

(* ---------------------------- gender tables ---------------------------- *)

\* exceptions mapping of a heuristic
ExceptionsMapping ==
    [androgynous |-> { <<"b">> },
     female |-> { <<"ya">> },
     male |-> { <<"b", "b">> }]

\* suffixes mappings of a heuristic: a female and a male ending; an
\* androgynous ending that a female ending extends; a female ending that a
\* longer male ending extends
PlainSuffixes ==
    [androgynous |-> {}, female |-> { <<"b">> }, male |-> { <<"ya">> }]
AndrogynousSuffixes ==
    [androgynous |-> { <<"ya">> }, female |-> { <<"b", "ya">> }, male |-> { <<"b">> }]
NestedSuffixes ==
    [androgynous |-> {}, female |-> { <<"b">> }, male |-> { <<"ya", "b">>, <<"ya">> }]

NoExceptions == [some |-> FALSE, val |-> NoMapping]
SomeExceptions(m) == [some |-> TRUE, val |-> m]

\* GenderHeuristics: the three heuristics of GENDER; the middle-name
\* heuristic has no exceptions mapping
GenderTables ==
    {[lastname |-> [exceptions |-> e, suffixes |-> l],
      firstname |-> [exceptions |-> SomeExceptions(ExceptionsMapping), suffixes |-> f],
      middlename |-> [exceptions |-> NoExceptions, suffixes |-> m]] :
        e \in {NoExceptions, SomeExceptions(ExceptionsMapping)},
        l \in {AndrogynousSuffixes, NestedSuffixes},
        f \in {PlainSuffixes, AndrogynousSuffixes},
        m \in {PlainSuffixes, NestedSuffixes}}

\* the characters of the names handed to detect_gender
GenderAlphabet == {"ya", "b", "B"}

\* Option<&str>: an absent part or a name
GenderNames ==
    {NoName} \cup {SomeName(n) : n \in StringsUpTo(GenderAlphabet, MaxGLen)}

\* Rules table used while detect_gender is exercised
NoRuleList == [exceptions |-> <<>>, suffixes |-> <<>>]
NoRulesTable ==
    [lastname |-> NoRuleList, firstname |-> NoRuleList, middlename |-> NoRuleList]

GenderCall(op, last, first, middle) ==
    [Idle EXCEPT !.op = op, !.lastname = last, !.firstname = first,
                 !.middlename = middle]

GenderRet(g) == [kind |-> "Gender", val |-> g]

InitGender ==
    /\ RULES = NoRulesTable
    /\ GENDER \in GenderTables
    /\ call = Idle
    /\ ret = NoRet
    /\ trace = <<>>

\* a call of detect_gender
DetectGender ==
    /\ call.op = "idle"
    /\ \E last \in GenderNames, first \in GenderNames, middle \in GenderNames :
          LET r == detect_gender(GENDER, last, first, middle)
          IN  /\ call' = GenderCall("detect_gender", last, first, middle)
              /\ ret' = GenderRet(r.ret)
              /\ trace' = r.trace
    /\ UNCHANGED <<RULES, GENDER>>

NextGender == DetectGender \/ Done

SpecGender == InitGender /\ [][NextGender]_vars

(* ---------------------------- deprecated API --------------------------- *)

InitDeprecated ==
    /\ \/ RULES \in RulesTables /\ GENDER = NoGenderTable
       \/ RULES = NoRulesTable /\ GENDER \in GenderTables
    /\ call = Idle
    /\ ret = NoRet
    /\ trace = <<>>

\* a call of Petrovich::firstname
PetrovichFirstname ==
    /\ call.op = "idle"
    /\ \E gender \in Gender, name \in Names, case \in Case :
          \E r \in Outcomes(Petrovich_firstname(RULES, gender, name, case, TRUE),
                            Petrovich_firstname(RULES, gender, name, case, FALSE)) :
             /\ call' = InflectCall("Petrovich::firstname", gender, name, case)
             /\ ret' = r.ret
             /\ trace' = r.trace
    /\ UNCHANGED <<RULES, GENDER>>

\* a call of Petrovich::middlename
PetrovichMiddlename ==
    /\ call.op = "idle"
    /\ \E gender \in Gender, name \in Names, case \in Case :
          \E r \in Outcomes(Petrovich_middlename(RULES, gender, name, case, TRUE),
                            Petrovich_middlename(RULES, gender, name, case, FALSE)) :
             /\ call' = InflectCall("Petrovich::middlename", gender, name, case)
             /\ ret' = r.ret
             /\ trace' = r.trace
    /\ UNCHANGED <<RULES, GENDER>>

\* a call of Petrovich::lastname
PetrovichLastname ==
    /\ call.op = "idle"
    /\ \E gender \in Gender, name \in Names, case \in Case :
          \E r \in Outcomes(Petrovich_lastname(RULES, gender, name, case, TRUE),
                            Petrovich_lastname(RULES, gender, name, case, FALSE)) :
             /\ call' = InflectCall("Petrovich::lastname", gender, name, case)
             /\ ret' = r.ret
             /\ trace' = r.trace
    /\ UNCHANGED <<RULES, GENDER>>

\* a call of Petrovich::detect_gender
PetrovichDetectGender ==
    /\ call.op = "idle"
    /\ \E middle \in StringsUpTo(GenderAlphabet, MaxGLen) :
          LET r == Petrovich_detect_gender(GENDER, middle)
          IN  /\ call' = GenderCall("Petrovich::detect_gender", NoName, NoName,
                                    SomeName(middle))
              /\ ret' = GenderRet(r.ret)
              /\ trace' = r.trace
    /\ UNCHANGED <<RULES, GENDER>>

NextDeprecated ==
    \/ PetrovichFirstname
    \/ PetrovichMiddlename
    \/ PetrovichLastname
    \/ PetrovichDetectGender
    \/ Done

SpecDeprecated == InitDeprecated /\ [][NextDeprecated]_vars

(* ---------------------------- properties ------------------------------ *)

InflectOps == {"firstname", "lastname", "middlename"}

\* the RuleList the call in progress works on
CalledList ==
    CASE call.op \in {"firstname", "Petrovich::firstname"} -> RULES.firstname
      [] call.op \in {"lastname", "Petrovich::lastname"} -> RULES.lastname
      [] OTHER -> RULES.middlename

Range(s) == {s[i] : i \in 1..Len(s)}

Hyphens(s) == Cardinality({i \in 1..Len(s) : s[i] = "-"})

GenderCompatible(rule, gender) == rule.gender \in {gender, "Androgynous"}

\* the exception rule applies to the lowercased fragment
ExceptionApplies(rule, lname, gender, is_last) ==
    /\ lname \in Range(rule.test)
    /\ GenderCompatible(rule, gender)
    /\ ~("FirstWord" \in rule.tags /\ is_last)

\* the suffix rule applies to the lowercased fragment
SuffixApplies(rule, lname, gender) ==
    /\ \E t \in Range(rule.test) :
          /\ Len(t) <= Len(lname)
          /\ \A i \in 1..Len(t) : t[i] = lname[Len(lname) - Len(t) + i]
    /\ GenderCompatible(rule, gender)

ApplicableExceptions(list, lname, gender, is_last) ==
    {i \in 1..Len(list.exceptions) :
        ExceptionApplies(list.exceptions[i], lname, gender, is_last)}

ApplicableSuffixes(list, lname, gender) ==
    {i \in 1..Len(list.suffixes) : SuffixApplies(list.suffixes[i], lname, gender)}

Lowest(S) == CHOOSE i \in S : \A j \in S : i <= j
Highest(S) == CHOOSE i \in S : \A j \in S : i >= j

\* the modifier applied to the fragment, for a trim within the fragment
Modified(fragment, m) ==
    IF m.some
    THEN SubSeq(fragment, 1, Len(fragment) - m.skip) \o m.postfix
    ELSE fragment

\* C1: a hyphen-free name that no exception rule and no suffix rule of the
\* list applies to comes back exactly as it was given, and not as a failure.
C1_PassThrough ==
    ( /\ call.op \in InflectOps
      /\ Hyphens(call.name) = 0
      /\ ApplicableExceptions(CalledList, to_lowercase(call.name), call.gender, TRUE) = {}
      /\ ApplicableSuffixes(CalledList, to_lowercase(call.name), call.gender) = {} )
    => ret = [kind |-> "String", val |-> call.name]

\* C1 witness: a non-empty name passed through a list that has rules
C1_Witness ==
    /\ call.op \in InflectOps
    /\ Hyphens(call.name) = 0
    /\ call.name # <<>>
    /\ CalledList.exceptions # <<>>
    /\ CalledList.suffixes # <<>>
    /\ ApplicableExceptions(CalledList, to_lowercase(call.name), call.gender, TRUE) = {}
    /\ ApplicableSuffixes(CalledList, to_lowercase(call.name), call.gender) = {}
    /\ ret = [kind |-> "String", val |-> call.name]

\* C2: when an exception rule and a suffix rule both apply to a part, the
\* part is inflected by the first applicable exception rule; a suffix rule
\* decides only when no exception rule applies.
C2_ExceptionPrecedence ==
    call.op \in InflectOps =>
      \A i \in 1..Len(trace) :
        LET st == trace[i]
            ex == ApplicableExceptions(CalledList, to_lowercase(st.part),
                                       call.gender, st.is_last)
            su == ApplicableSuffixes(CalledList, to_lowercase(st.part), call.gender)
        IN  /\ (ex # {} /\ su # {}) =>
                 /\ st.pass = "exception"
                 /\ st.idx = Lowest(ex)
                 /\ LET m == CalledList.exceptions[Lowest(ex)]
                                 .mods[case_as_usize(call.case) + 1]
                    IN  m.skip <= Len(st.part) =>
                          st.out = [kind |-> "String", val |-> Modified(st.part, m)]
            /\ st.pass = "suffix" => ex = {}

\* C2 witness: a part both passes apply to, inflected by the exception rule
\* to something the suffix rule would not have produced
C2_Witness ==
    /\ call.op \in InflectOps
    /\ \E i \in 1..Len(trace) :
         LET st == trace[i]
             ex == ApplicableExceptions(CalledList, to_lowercase(st.part),
                                        call.gender, st.is_last)
             su == ApplicableSuffixes(CalledList, to_lowercase(st.part), call.gender)
         IN  /\ ex # {}
             /\ su # {}
             /\ st.pass = "exception"
             /\ st.out.kind = "String"
             /\ \A j \in su :
                  st.out.val # Modified(st.part,
                      CalledList.suffixes[j].mods[case_as_usize(call.case) + 1])

\* the character length of the longest test of rule that ends lname
CharLongest(rule, lname) ==
    LET ls == {Len(t) : t \in {u \in Range(rule.test) :
                  /\ Len(u) <= Len(lname)
                  /\ \A i \in 1..Len(u) : u[i] = lname[Len(lname) - Len(u) + i]}}
    IN  Highest(ls)

\* C3: when no exception applies, the suffix rule chosen for a part is an
\* applicable one whose longest matching test is, counted in characters, at
\* least as long as that of every other applicable suffix rule.
C3_LongestSuffixWins ==
    call.op \in InflectOps =>
      \A i \in 1..Len(trace) :
        LET st == trace[i]
            ln == to_lowercase(st.part)
            su == ApplicableSuffixes(CalledList, ln, call.gender)
        IN  (st.pass # "exception" /\ su # {}) =>
              /\ st.pass = "suffix"
              /\ st.idx \in su
              /\ \A j \in su :
                   CharLongest(CalledList.suffixes[st.idx], ln)
                     >= CharLongest(CalledList.suffixes[j], ln)

\* C3 witness: two applicable suffix rules with longest matches of different
\* lengths, the longer one standing first in the table, and it is chosen
C3_Witness ==
    /\ call.op \in InflectOps
    /\ \E i \in 1..Len(trace) :
         LET st == trace[i]
             ln == to_lowercase(st.part)
             su == ApplicableSuffixes(CalledList, ln, call.gender)
         IN  /\ st.pass = "suffix"
             /\ \E j \in su :
                  /\ st.idx < j
                  /\ CharLongest(CalledList.suffixes[st.idx], ln)
                       > CharLongest(CalledList.suffixes[j], ln)
                  /\ str_len(ln) > Len(ln)

\* the per-part answer of the heuristic of GENDER for an optional name
Signal(which, name) ==
    IF name.some
    THEN heuristic_detect_gender(GENDER[which], to_lowercase(name.val))
    ELSE [some |-> FALSE, val |-> "Androgynous"]

\* name ends with one of the strings of set
EndsWithOneOf(name, set) ==
    \E t \in set :
       /\ Len(t) <= Len(name)
       /\ \A i \in 1..Len(t) : t[i] = name[Len(name) - Len(t) + i]

\* the middle name ends with a male suffix and with no androgynous or female
\* one, and no exception of the middle-name heuristic lists it
DefiniteMaleMiddlename(name) ==
    /\ name.some
    /\ LET h == GENDER.middlename
           n == to_lowercase(name.val)
       IN  /\ EndsWithOneOf(n, h.suffixes.male)
           /\ ~EndsWithOneOf(n, h.suffixes.female)
           /\ ~EndsWithOneOf(n, h.suffixes.androgynous)
           /\ h.exceptions.some =>
                n \notin (h.exceptions.val.androgynous \cup h.exceptions.val.female
                            \cup h.exceptions.val.male)

\* the first name is a female exception of the first-name heuristic
FemaleExceptionFirstname(name) ==
    /\ name.some
    /\ GENDER.firstname.exceptions.some
    /\ to_lowercase(name.val) \in GENDER.firstname.exceptions.val.female
    /\ to_lowercase(name.val) \notin GENDER.firstname.exceptions.val.androgynous

\* C4: detect_gender answers with the first definite per-part answer in the
\* order middlename, firstname, lastname, and with Androgynous exactly when no
\* provided part has a definite answer; a middle name with a definite male
\* suffix wins over a first name that is a female exception.
C4_GenderCascade ==
    call.op = "detect_gender" =>
      LET m == Signal("middlename", call.middlename)
          f == Signal("firstname", call.firstname)
          l == Signal("lastname", call.lastname)
      IN  /\ ret.kind = "Gender"
          /\ m.some => ret.val = m.val
          /\ (~m.some /\ f.some) => ret.val = f.val
          /\ (~m.some /\ ~f.some /\ l.some) => ret.val = l.val
          /\ (ret.val = "Androgynous") <=> (~m.some /\ ~f.some /\ ~l.some)
          /\ ( /\ DefiniteMaleMiddlename(call.middlename)
               /\ FemaleExceptionFirstname(call.firstname) ) => ret.val = "Male"

\* C4 witness: a middle name with a definite male suffix, a first name that
\* is a female exception, a last name on its own answering Female: Male
C4_Witness ==
    /\ call.op = "detect_gender"
    /\ DefiniteMaleMiddlename(call.middlename)
    /\ FemaleExceptionFirstname(call.firstname)
    /\ Signal("lastname", call.lastname) = [some |-> TRUE, val |-> "Female"]
    /\ ret.val = "Male"

\* C5: an Androgynous rule passes the gender filter for each of the three
\* requested genders, and on a list of Androgynous rules only the matcher
\* chooses for every part the same rule whichever gender is requested.
C5_GenderWildcard ==
    call.op \in InflectOps =>
      LET rs == Range(CalledList.exceptions) \cup Range(CalledList.suffixes)
      IN  /\ \A r \in rs : r.gender = "Androgynous" =>
                \A g \in Gender : gender_matches(r, g)
          /\ (\A r \in rs : r.gender = "Androgynous") =>
                \A i \in 1..Len(trace) : \A g \in Gender :
                   matched_rule(CalledList, to_lowercase(trace[i].part), g,
                                trace[i].is_last)
                     = [pass |-> trace[i].pass, idx |-> trace[i].idx]

\* C5 witness: a Male request on a list of Androgynous rules only, with a
\* part an exception decides and a part a suffix rule decides
C5_Witness ==
    /\ call.op \in InflectOps
    /\ call.gender = "Male"
    /\ \A r \in Range(CalledList.exceptions) \cup Range(CalledList.suffixes) :
          r.gender = "Androgynous"
    /\ \E i \in 1..Len(trace) : trace[i].pass = "exception"
    /\ \E i \in 1..Len(trace) : trace[i].pass = "suffix"

FreeResult(oc) ==
    CASE call.op = "Petrovich::firstname" ->
           firstname(RULES, call.gender, call.name, call.case, oc).ret
      [] call.op = "Petrovich::lastname" ->
           lastname(RULES, call.gender, call.name, call.case, oc).ret
      [] OTHER ->
           middlename(RULES, call.gender, call.name, call.case, oc).ret

\* C7: Petrovich::firstname, ::middlename and ::lastname return Ok of exactly
\* what the free function of the same name returns and never Err;
\* Petrovich::detect_gender(m) is detect_gender(None, None, Some(m)).
C7_WrappersForward ==
    /\ call.op \in {"Petrovich::firstname", "Petrovich::middlename",
                    "Petrovich::lastname"} =>
         /\ ret.kind # "Err"
         /\ \E oc \in BOOLEAN :
              LET v == FreeResult(oc)
              IN  IF v.kind = "String"
                  THEN ret = [kind |-> "Ok", val |-> v.val]
                  ELSE ret = v
    /\ call.op = "Petrovich::detect_gender" =>
         ret = [kind |-> "Gender",
                val |-> detect_gender(GENDER, [some |-> FALSE, val |-> <<>>],
                                      [some |-> FALSE, val |-> <<>>],
                                      call.middlename).ret]

\* C7 witness: Petrovich::firstname gives Ok for a name no rule matches
C7_Witness ==
    /\ call.op = "Petrovich::firstname"
    /\ CalledList.suffixes # <<>>
    /\ \A i \in 1..Len(trace) : trace[i].pass = "none"
    /\ ret = [kind |-> "Ok", val |-> call.name]

\* C8: a part whose lowercased value is an androgynous exception of its
\* heuristic yields no signal, whatever suffixes it ends with.
C8_AndrogynousExceptionStops ==
    call.op = "detect_gender" =>
      \A i \in 1..Len(trace) :
        LET st == trace[i]
            h == GENDER[st.which]
        IN  ( /\ st.name.some
              /\ h.exceptions.some
              /\ to_lowercase(st.name.val) \in h.exceptions.val.androgynous )
            => ~st.signal.some

\* the applicable suffix rules whose longest matching test is the longest
Longest(list, ln, gender) ==
    LET su == ApplicableSuffixes(list, ln, gender)
    IN  {j \in su : \A j2 \in su :
            CharLongest(list.suffixes[j], ln) >= CharLongest(list.suffixes[j2], ln)}

\* C9 as claimed: among the applicable suffix rules with the longest match,
\* the one standing first in the table is chosen.
C9_TieBreakFirst ==
    call.op \in InflectOps =>
      \A i \in 1..Len(trace) :
        trace[i].pass = "suffix" =>
          trace[i].idx = Lowest(Longest(CalledList, to_lowercase(trace[i].part),
                                        call.gender))

\* C9 as amended: among the applicable suffix rules with the longest match,
\* the one standing last in the table is chosen.
C9_TieBreakLast ==
    call.op \in InflectOps =>
      \A i \in 1..Len(trace) :
        trace[i].pass = "suffix" =>
          trace[i].idx = Highest(Longest(CalledList, to_lowercase(trace[i].part),
                                         call.gender))

\* C9 witness: two applicable suffix rules tie for the longest match and the
\* later one is chosen
C9_Witness ==
    /\ call.op \in InflectOps
    /\ \E i \in 1..Len(trace) :
         LET top == Longest(CalledList, to_lowercase(trace[i].part), call.gender)
         IN  /\ trace[i].pass = "suffix"
             /\ Cardinality(top) >= 2
             /\ trace[i].idx = Highest(top)

\* C10: the part at position n - 1 of n parts (the only part when n = 1) is
\* never decided by an exception tagged FirstWord: the first untagged
\* exception matching by name and gender decides it, else the suffix pass;
\* a part before the last is decided by the first exception matching by name
\* and gender, tagged or not; a tag on a suffix rule excludes nothing.
C10_FirstWordGating ==
    call.op \in InflectOps =>
      \A i \in 1..Len(trace) :
        LET st == trace[i]
            ln == to_lowercase(st.part)
            ex == CalledList.exceptions
            named == {j \in 1..Len(ex) :
                        ln \in Range(ex[j].test) /\ GenderCompatible(ex[j], call.gender)}
            untagged == {j \in named : "FirstWord" \notin ex[j].tags}
            su == ApplicableSuffixes(CalledList, ln, call.gender)
        IN  /\ st.is_last = (i = Hyphens(call.name) + 1)
            /\ st.is_last =>
                 /\ ~(st.pass = "exception" /\ "FirstWord" \in ex[st.idx].tags)
                 /\ untagged # {} => (st.pass = "exception" /\ st.idx = Lowest(untagged))
                 /\ untagged = {} => st.pass # "exception"
            /\ ~st.is_last =>
                 /\ named # {} => (st.pass = "exception" /\ st.idx = Lowest(named))
            /\ (st.pass # "exception" /\ su # {}) => (st.pass = "suffix" /\ st.idx \in su)

\* C10 witness: two parts with the same letters; a tagged exception decides
\* the first one, and the last one, which the same exception matches by name
\* and gender, is decided by a suffix rule that carries the tag as well
C10_Witness ==
    /\ call.op \in InflectOps
    /\ Len(trace) = 2
    /\ to_lowercase(trace[1].part) = to_lowercase(trace[2].part)
    /\ trace[1].pass = "exception"
    /\ "FirstWord" \in CalledList.exceptions[trace[1].idx].tags
    /\ trace[2].is_last
    /\ trace[2].pass = "suffix"
    /\ "FirstWord" \in CalledList.suffixes[trace[2].idx].tags

\* the rule a step of the trace was inflected by
StepRule(st) ==
    IF st.pass = "exception" THEN CalledList.exceptions[st.idx]
    ELSE CalledList.suffixes[st.idx]

\* C11: the rule chosen for a part applies to the lowercased part, and its
\* modifier for the case acts on the part as given: an identity modifier
\* returns the part unchanged; a modifier (trimCount, suffix) with trimCount
\* within the part's character count returns the part's first
\* count - trimCount characters, in their original casing, followed by suffix.
C11_ModifierOnOriginal ==
    call.op \in InflectOps =>
      \A i \in 1..Len(trace) :
        LET st == trace[i] IN
          st.pass # "none" =>
            LET rule == StepRule(st)
                m == rule.mods[case_as_usize(call.case) + 1]
                n == Len(st.part)
            IN  /\ IF st.pass = "exception"
                   THEN ExceptionApplies(rule, to_lowercase(st.part),
                                         call.gender, st.is_last)
                   ELSE SuffixApplies(rule, to_lowercase(st.part), call.gender)
                /\ ~m.some => st.out = [kind |-> "String", val |-> st.part]
                /\ (m.some /\ m.skip <= n) =>
                     st.out = [kind |-> "String",
                               val |-> [k \in 1..(n - m.skip) |-> st.part[k]]
                                         \o m.postfix]

\* C11 witness: a part with an upper-case character that no rule applies to
\* as written, matched through its lowercased form and trimmed by a
\* modifier that leaves the upper-case character in the result
C11_Witness ==
    /\ call.op \in InflectOps
    /\ \E i \in 1..Len(trace) :
         LET st == trace[i] IN
           /\ st.pass # "none"
           /\ ApplicableExceptions(CalledList, st.part, call.gender, st.is_last) = {}
           /\ ApplicableSuffixes(CalledList, st.part, call.gender) = {}
           /\ LET m == StepRule(st).mods[case_as_usize(call.case) + 1]
              IN  /\ m.some
                  /\ m.skip >= 1
                  /\ m.skip <= Len(st.part)
                  /\ st.out.kind = "String"
                  /\ "YA" \in Range(st.out.val)
                  /\ st.out.val # to_lowercase(st.out.val)

\* C12: inflect raises no arithmetic or bounds failure for any part a rule
\* was chosen for, whatever the rule's modifier for the case; when the
\* modifier trims more characters than the part has, the trim stops at the
\* part's length and the result is the modifier's suffix alone.
C12_TrimClamped ==
    call.op \in InflectOps =>
      /\ ret.kind # "panic"
      /\ \A i \in 1..Len(trace) :
           LET st == trace[i] IN
             st.pass # "none" =>
               LET m == StepRule(st).mods[case_as_usize(call.case) + 1]
               IN  /\ st.out.kind = "String"
                   /\ (m.some /\ m.skip > Len(st.part)) => st.out.val = m.postfix

\* no exception set of the heuristic lists the lowercased value n
NoExceptionListed(h, n) ==
    h.exceptions.some =>
      n \notin (h.exceptions.val.androgynous \cup h.exceptions.val.female
                  \cup h.exceptions.val.male)

\* the length of the longest string of set that name ends with
LongestEnding(name, set) ==
    Highest({Len(t) : t \in {u \in set : EndsWithOneOf(name, {u})}})

\* C13: for a name part that no exception set lists, the suffix sets decide
\* in the order androgynous, female, male, the first set with a suffix the
\* value ends with deciding, whatever the lengths of the suffixes: an
\* androgynous ending gives no signal even if a female or male ending also
\* matches; without one, a female ending gives Female even if a male ending
\* (a longer one included) also matches; without either, a male ending gives
\* Male; with no ending at all there is no signal.
C13_GenderSuffixOrder ==
    call.op = "detect_gender" =>
      \A i \in 1..Len(trace) :
        LET st == trace[i] IN
          st.name.some =>
            LET h == GENDER[st.which]
                n == to_lowercase(st.name.val)
                a == EndsWithOneOf(n, h.suffixes.androgynous)
                f == EndsWithOneOf(n, h.suffixes.female)
                m == EndsWithOneOf(n, h.suffixes.male)
            IN  NoExceptionListed(h, n) =>
                  /\ a => ~st.signal.some
                  /\ (~a /\ f) => st.signal = [some |-> TRUE, val |-> "Female"]
                  /\ (~a /\ ~f /\ m) => st.signal = [some |-> TRUE, val |-> "Male"]
                  /\ (~a /\ ~f /\ ~m) => ~st.signal.some

\* C13 witness: one call in which a part ending with an androgynous suffix
\* and with a female one gave no signal, and a later part ending with a
\* female suffix and with a longer male one gave Female
C13_Witness ==
    /\ call.op = "detect_gender"
    /\ \E i \in 1..Len(trace) :
         LET st == trace[i]
             h == GENDER[st.which]
             n == to_lowercase(st.name.val)
         IN  /\ st.name.some
             /\ NoExceptionListed(h, n)
             /\ EndsWithOneOf(n, h.suffixes.androgynous)
             /\ EndsWithOneOf(n, h.suffixes.female)
             /\ ~st.signal.some
    /\ \E i \in 1..Len(trace) :
         LET st == trace[i]
             h == GENDER[st.which]
             n == to_lowercase(st.name.val)
         IN  /\ st.name.some
             /\ NoExceptionListed(h, n)
             /\ ~EndsWithOneOf(n, h.suffixes.androgynous)
             /\ EndsWithOneOf(n, h.suffixes.female)
             /\ EndsWithOneOf(n, h.suffixes.male)
             /\ LongestEnding(n, h.suffixes.male) > LongestEnding(n, h.suffixes.female)
             /\ st.signal = [some |-> TRUE, val |-> "Female"]
    /\ ret = [kind |-> "Gender", val |-> "Female"]

====
